---- MODULE Spec2Model ----
(***************************************************************************)
(* Model of comet/timer.go: a fixed-capacity binary min-heap of TimerData  *)
(* (Timer.Push / Pop / Remove / Peek) and the background goroutine         *)
(* Timer.process that pops expired entries and closes their connections.   *)
(*                                                                         *)
(* Four specifications are given over the same variables:                  *)
(*   SpecSeq : one client calls Push, Pop, Remove and Peek, each call run  *)
(*             to completion (the goroutine only sleeps).                  *)
(*   SpecHeap: the same client on a larger store that starts out holding   *)
(*             a heap, as Push calls in slot order leave it.               *)
(*   Spec    : the goroutine of process() interleaved with callers of      *)
(*             Push and Remove, with a clock.                              *)
(*   SpecDrain: the goroutine of process() alone on such a store.          *)
(***************************************************************************)
EXTENDS Integers, Sequences, FiniteSets, TLC

\* ---- bounds of the model ------------------------------------------------
\* capacity handed to NewTimer(num)
num == 2
\* number of TimerData objects the callers create
NumEntries == 3
\* deadlines (TimerData.Key) range over 1..MaxKey
MaxKey == 2
\* the clock saturates at MaxTime (every deadline is <= MaxTime)
MaxTime == 2
\* capacity of the store that SpecHeap starts from
HeapNum == 4

\* timerDelay, in clock ticks
timerDelay == 1

Entries == 1..NumEntries
\* the nil *TimerData
Nil == 0
Keys == 1..MaxKey
\* TimerData.Value: a connection whose Close returns nil, a connection whose
\* Close returns an error, or none
Values == {"conn", "connErr", "nil"}
\* a Value the model has not drawn yet
Unread == "unread"

ErrNone == "nil"
ErrTimerFull == "timer full"
ErrTimerEmpty == "timer empty"
ErrTimerNoItem == "timer item not exist"

VARIABLES
    timers,     \* Timer.timers : slot -> entry (Nil when never written)
    cur,        \* Timer.cur    : index of the last occupied slot, -1 if none
    index,      \* TimerData.index of every entry
    Key,        \* TimerData.Key of every entry
    Value,      \* TimerData.Value of every entry, one of Values; the caller
                \* sets it when it creates the entry and nothing but process()
                \* reads it, so it is drawn when process() first reads it
    lock,       \* Timer.lock: "free", or who locked it last: "caller" (in
                \* Push, Remove, or a client's Pop) or "sched" (process()'s
                \* Pop); it stays locked when that call returns without Unlock
    inflight,   \* the caller's call that is inside its critical section
    panicked,   \* a run-time panic (index out of range, nil dereference)
    now,        \* the clock, time.Now()
    spc,        \* position of the goroutine in process()
    td,         \* process(): td
    sleep,      \* process(): ticks left of the current time.Sleep
    last,       \* the last call that returned: [op, arg, item, err, again]
    phase,      \* history of SpecSeq: "fill", "drain" or "mixed"
    popSeq,     \* deadlines popped during the drain phase, in order
    pushed,     \* entries stored by a successful Push
    popped,     \* entry -> number of times Pop returned it
    removed,    \* entry -> number of times Remove extracted it
    closed,     \* entry -> number of Close calls on its connection
    removedOK   \* entries e stored when a Remove(e) returned without error

vars == <<timers, cur, index, Key, Value, lock, inflight, panicked, now, spc,
          td, sleep, last, phase, popSeq, pushed, popped, removed, closed,
          removedOK>>

storeVars == <<timers, cur, index>>
schedVars == <<spc, td, sleep>>
seqHist == <<phase, popSeq>>
hist == <<pushed, popped, removed, closed, removedOK>>

\* ---- the heap, as functions of a store record ----------------------------
\* A store record is [timers, cur, index, key, panic].

\* the slots of t.timers, 0..len(t.timers)-1
Slots == DOMAIN timers

\* t.max, set by NewTimer to num - 1, where num is len(t.timers)
max == Cardinality(Slots) - 1

InRange(i) == i \in Slots

\* Go integer division truncates toward zero
GoDiv(a, b) == IF a >= 0 THEN a \div b ELSE -((-a) \div b)

Store == [timers |-> timers, cur |-> cur, index |-> index, key |-> Key,
          panic |-> FALSE]

\* the store once the caller has filled in the Key of the entry it created
WithKey(h, e, k) == [h EXCEPT !.key = [h.key EXCEPT ![e] = k]]

Panic(h) == [h EXCEPT !.panic = TRUE]

less(h, i, j) == h.key[h.timers[i]] < h.key[h.timers[j]]

\* both slots are readable and hold an entry
Deref(h, i, j) ==
    /\ InRange(i) /\ InRange(j)
    /\ h.timers[i] # Nil /\ h.timers[j] # Nil

\* swap without the two assignments to .index of lines 164-165
swapKeepIndex(h, i, j) ==
    IF ~Deref(h, i, j) THEN Panic(h)
    ELSE [h EXCEPT !.timers = [h.timers EXCEPT ![i] = h.timers[j],
                                               ![j] = h.timers[i]]]

swap(h, i, j) ==
    IF ~Deref(h, i, j) THEN Panic(h)
    ELSE LET t1 == [h.timers EXCEPT ![i] = h.timers[j], ![j] = h.timers[i]]
             x1 == [h.index EXCEPT ![t1[i]] = i]
             x2 == [x1 EXCEPT ![t1[j]] = j]
         IN [h EXCEPT !.timers = t1, !.index = x2]

\* the element of a one-element set
The(S) == CHOOSE x \in S : TRUE

RECURSIVE up(_, _)
up(h, j) ==
    LET i == GoDiv(j - 1, 2)
    IN IF h.panic \/ i = j THEN h
       ELSE IF ~Deref(h, i, j) THEN Panic(h)
       ELSE IF ~less(h, j, i) THEN h
       ELSE The({up(s, i) : s \in {swap(h, i, j)}})

RECURSIVE down(_, _, _)
down(h, i, n) ==
    LET j1 == 2 * i + 1
        j2 == j1 + 1
    IN IF h.panic \/ j1 >= n \/ j1 < 0 THEN h
       ELSE IF ~Deref(h, i, j1) \/ (j2 < n /\ ~InRange(j2)) THEN Panic(h)
       ELSE IF j2 < n /\ h.timers[j2] = Nil THEN Panic(h)
       ELSE LET j == IF j2 < n /\ ~less(h, j1, j2) THEN j2 ELSE j1
            IN IF ~less(h, j, i) THEN h
               ELSE The({down(s, j, n) : s \in {swap(h, i, j)}})

\* Timer.pop: the result is [h, item]
pop(h) ==
    IF h.panic THEN [h |-> h, item |-> Nil]
    ELSE IF ~InRange(h.cur) \/ h.timers[h.cur] = Nil
         THEN [h |-> Panic(h), item |-> Nil]
    ELSE LET item == h.timers[h.cur]
         IN [h |-> [h EXCEPT !.index = [h.index EXCEPT ![item] = -1],
                             !.cur = h.cur - 1],
             item |-> item]

\* The public operations return [h, item, err, unlocked]: the store after the
\* call, the returned entry, the returned error, and whether the call released
\* the lock before it returned.
Ret(h, item, err, unlocked) ==
    [h |-> h, item |-> item, err |-> err, unlocked |-> unlocked]

\* variant of the capacity test that lets one more entry in
PushFullOffByOne(h) == h.cur > max

PushFull(h) == h.cur >= max

\* the slot up() is started from after the append
PushUpFrom(c) == c - 1

\* t.cur++; item.index = t.cur; t.timers[t.cur] = item
PushAppend(h, item) ==
    LET c == h.cur + 1
        h1 == [h EXCEPT !.cur = c, !.index = [h.index EXCEPT ![item] = c]]
    IN IF ~InRange(c) THEN Panic(h1)
       ELSE [h1 EXCEPT !.timers = [h1.timers EXCEPT ![c] = item]]

Push(h, item) ==
    IF PushFull(h) THEN Ret(h, Nil, ErrTimerFull, TRUE)
    ELSE The({Ret(h3, Nil, ErrNone, ~h3.panic) :
                h3 \in {up(h2, PushUpFrom(h2.cur)) :
                    h2 \in {PushAppend(h, item)}}})

\* Pop without the down(0, t.cur) of line 88
PopNoDown(h) ==
    IF h.cur < 0 THEN Ret(h, Nil, ErrTimerEmpty, FALSE)
    ELSE The({Ret(r.h, r.item, ErrNone, ~r.h.panic) :
                r \in {pop(h1) : h1 \in {swap(h, 0, h.cur)}}})

Pop(h) ==
    IF h.cur < 0 THEN Ret(h, Nil, ErrTimerEmpty, FALSE)
    ELSE The({Ret(r.h, r.item, ErrNone, ~r.h.panic) :
                r \in {pop(h2) :
                    h2 \in {down(h1, 0, h1.cur) :
                        h1 \in {swap(h, 0, h.cur)}}}})

\* the body of the branch t.cur != item.index of Remove
RemoveSift(h, item) ==
    The({up(s2, s2.index[item]) :
            s2 \in {down(s1, s1.index[item], s1.cur) :
                s1 \in {swap(h, h.index[item], h.cur)}}})

Remove(h, item) ==
    IF h.index[item] = -1 THEN Ret(h, Nil, ErrTimerNoItem, FALSE)
    ELSE The({Ret(r.h, r.item, ErrNone, ~r.h.panic) :
                r \in {pop(h1) :
                    h1 \in {IF h.cur # h.index[item]
                            THEN RemoveSift(h, item) ELSE h}}})

Peek(h) ==
    IF h.cur < 0 THEN Ret(h, Nil, ErrTimerEmpty, TRUE)
    ELSE Ret(h, h.timers[0], ErrNone, TRUE)

\* ---- derived notions ------------------------------------------------------
Active == {i \in Slots : i <= cur}
StoredSet == {timers[i] : i \in Active}
Stored(e) == e \in StoredSet
\* Entries are interchangeable: the callers hand them to Push in the order
\* 1, 2, ..., each at most once (a rejected Push may be tried again).
NextNew == IF pushed = DOMAIN index THEN Nil
           ELSE CHOOSE e \in DOMAIN index \ pushed :
                    \A o \in DOMAIN index \ pushed : e <= o
\* the caller has created the entry and filled in its Key and Value (a Push
\* that was rejected is tried again with the same entry)
Created(e) == Key[e] # 0
Inc(f, e) == [f EXCEPT ![e] = IF @ < 2 THEN @ + 1 ELSE @]
NoCall == [op |-> "none", item |-> Nil]
NoLast == [op |-> "none", arg |-> Nil, item |-> Nil, err |-> ErrNone,
           again |-> FALSE]

\* ---- initial state: after NewTimer(num) -----------------------------------
\* A TimerData the caller creates has the zero value 0 in its index field;
\* the caller fills in Key and Value before it hands the entry to Push.
Init ==
    /\ timers = [i \in 0..(num - 1) |-> Nil]
    /\ cur = -1
    /\ index = [e \in Entries |-> 0]
    /\ Key = [e \in Entries |-> 0]
    /\ Value = [e \in Entries |-> Unread]
    /\ lock = "free"
    /\ inflight = NoCall
    /\ panicked = FALSE
    /\ now = 0
    /\ spc = "peek"
    /\ td = Nil
    /\ sleep = 0
    /\ last = NoLast
    /\ phase = "fill"
    /\ popSeq = <<>>
    /\ pushed = {}
    /\ popped = [e \in Entries |-> 0]
    /\ removed = [e \in Entries |-> 0]
    /\ closed = [e \in Entries |-> 0]
    /\ removedOK = {}

\* the effect of a returned call on the store, the lock and the panic flag
Apply(r, holder) ==
    /\ timers' = r.h.timers
    /\ cur' = r.h.cur
    /\ index' = r.h.index
    /\ Key' = r.h.key
    /\ panicked' = r.h.panic
    /\ lock' = IF r.unlocked THEN "free" ELSE holder
    /\ inflight' = NoCall

\* history kept for a Push(e) that returned r
PushHist(e, r) ==
    /\ pushed' = IF r.err = ErrNone /\ ~r.h.panic THEN pushed \cup {e} ELSE pushed
    /\ UNCHANGED <<popped, removed, closed, removedOK>>

\* history kept for a Remove(e) that returned r
RemoveHist(e, r) ==
    /\ removed' = IF r.item # Nil THEN Inc(removed, r.item) ELSE removed
    /\ removedOK' = IF Stored(e) /\ r.err = ErrNone /\ ~r.h.panic
                    THEN removedOK \cup {e} ELSE removedOK
    /\ UNCHANGED <<pushed, popped, closed>>

\* history kept for a Pop() that returned r
PopHist(r) ==
    /\ popped' = IF r.item # Nil THEN Inc(popped, r.item) ELSE popped
    /\ UNCHANGED <<pushed, removed, closed, removedOK>>

Returned(op, arg, r) ==
    last' = [op |-> op, arg |-> arg, item |-> r.item, err |-> r.err,
             again |-> arg \in removedOK]

\* ---- SpecSeq: one client, every call run to completion --------------------
\* A call can start only when the lock is free: otherwise Lock() blocks.
CanCall == lock = "free" /\ ~panicked

SeqPush(e, k) ==
    /\ CanCall
    /\ e = NextNew
    /\ Created(e) => k = Key[e]
    /\ \E r \in {Push(WithKey(Store, e, k), e)} :
          /\ Apply(r, "caller")
          /\ Returned("Push", e, r)
          /\ PushHist(e, r)
          /\ phase' = IF phase = "fill" THEN "fill" ELSE "mixed"
    /\ UNCHANGED <<Value, now, schedVars, popSeq>>

SeqPop ==
    /\ CanCall
    /\ \E r \in {Pop(Store)} :
          /\ Apply(r, "caller")
          /\ Returned("Pop", Nil, r)
          /\ PopHist(r)
          /\ phase' = IF phase \in {"fill", "drain"} /\ cur >= 0
                      THEN "drain" ELSE IF phase = "drain" THEN "drain"
                      ELSE "mixed"
          /\ popSeq' = IF phase \in {"fill", "drain"} /\ r.item # Nil
                       THEN Append(popSeq, Key[r.item]) ELSE popSeq
    /\ UNCHANGED <<Value, now, schedVars>>

SeqRemove(e) ==
    /\ CanCall
    /\ \E r \in {Remove(Store, e)} :
          /\ Apply(r, "caller")
          /\ Returned("Remove", e, r)
          /\ RemoveHist(e, r)
    /\ phase' = "mixed"
    /\ UNCHANGED <<Value, now, schedVars, popSeq>>

\* Peek takes no lock
SeqPeek ==
    /\ ~panicked
    /\ \E r \in {Peek(Store)} :
          Returned("Peek", Nil, r)
    /\ UNCHANGED <<storeVars, Key, Value, lock, inflight, panicked, now,
                   schedVars, seqHist, pushed, popped, removed, closed,
                   removedOK>>

NextSeq ==
    \/ \E e \in Entries, k \in Keys : SeqPush(e, k)
    \/ SeqPop
    \/ \E e \in Entries : SeqRemove(e)
    \/ SeqPeek

SpecSeq == Init /\ [][NextSeq]_vars

\* ---- SpecHeap: one client on a store that already holds a heap ------------
\* The store of NewTimer(HeapNum) after n calls of Push, given in the order of
\* the slots with deadlines that form a heap: Push appends at slot t.cur and
\* its up(t.cur - 1) moves nothing then, so entry i + 1 is at slot i. The
\* client has one more entry, not pushed yet, and goes on with Push, Pop and
\* Remove.
HeapKeys(n) ==
    {k \in [1..n -> Keys] : \A i \in 1..(n - 1) : k[((i - 1) \div 2) + 1] <= k[i + 1]}

HeapInit ==
    \E n \in 0..HeapNum : \E k \in HeapKeys(n) :
        /\ timers = [i \in 0..(HeapNum - 1) |-> IF i < n THEN i + 1 ELSE Nil]
        /\ cur = n - 1
        /\ index = [e \in 1..(n + 1) |-> IF e <= n THEN e - 1 ELSE 0]
        /\ Key = [e \in 1..(n + 1) |-> IF e <= n THEN k[e] ELSE 0]
        /\ Value = [e \in 1..(n + 1) |-> Unread]
        /\ lock = "free"
        /\ inflight = NoCall
        /\ panicked = FALSE
        /\ now = 0
        /\ spc = "peek"
        /\ td = Nil
        /\ sleep = 0
        /\ last = NoLast
        /\ phase = "mixed"
        /\ popSeq = <<>>
        /\ pushed = 1..n
        /\ popped = [e \in 1..(n + 1) |-> 0]
        /\ removed = [e \in 1..(n + 1) |-> 0]
        /\ closed = [e \in 1..(n + 1) |-> 0]
        /\ removedOK = {}

\* the calls of SpecSeq; of the history only last and pushed are kept
HeapPush(e, k) ==
    /\ CanCall
    /\ e = NextNew
    /\ Created(e) => k = Key[e]
    /\ \E r \in {Push(WithKey(Store, e, k), e)} :
          /\ Apply(r, "caller")
          /\ Returned("Push", e, r)
          /\ pushed' = IF r.err = ErrNone /\ ~r.h.panic THEN pushed \cup {e}
                       ELSE pushed
    /\ UNCHANGED <<Value, now, schedVars, seqHist, popped, removed, closed,
                   removedOK>>

HeapPop ==
    /\ CanCall
    /\ \E r \in {Pop(Store)} :
          /\ Apply(r, "caller")
          /\ Returned("Pop", Nil, r)
    /\ UNCHANGED <<Value, now, schedVars, seqHist, hist>>

HeapRemove(e) ==
    /\ CanCall
    /\ \E r \in {Remove(Store, e)} :
          /\ Apply(r, "caller")
          /\ Returned("Remove", e, r)
    /\ UNCHANGED <<Value, now, schedVars, seqHist, hist>>

NextHeap ==
    \/ \E e \in DOMAIN index, k \in Keys : HeapPush(e, k)
    \/ HeapPop
    \/ \E e \in DOMAIN index : HeapRemove(e)

SpecHeap == HeapInit /\ [][NextHeap]_vars

\* ---- Spec: the goroutine of process() and concurrent callers -------------
\* Callers take the lock in one step and run the body of the call in the next;
\* a caller waiting for the lock has no state of its own.

\* time passes; a sleeping goroutine gets closer to its wake-up
Tick ==
    /\ ~panicked
    /\ now < MaxTime \/ sleep > 0
    /\ now' = IF now < MaxTime THEN now + 1 ELSE now
    /\ sleep' = IF sleep > 0 THEN sleep - 1 ELSE 0
    /\ UNCHANGED <<storeVars, Key, Value, lock, inflight, panicked, spc, td,
                   last, seqHist, hist>>

PushLock(e, k) ==
    /\ CanCall
    /\ e = NextNew
    /\ Created(e) => k = Key[e]
    /\ lock' = "caller"
    /\ inflight' = [op |-> "Push", item |-> e]
    /\ Key' = [Key EXCEPT ![e] = k]
    /\ UNCHANGED <<storeVars, Value, panicked, now, schedVars, last, seqHist,
                   hist>>

PushBody ==
    /\ ~panicked
    /\ lock = "caller" /\ inflight.op = "Push"
    /\ \E r \in {Push(Store, inflight.item)} :
          /\ Apply(r, "caller")
          /\ Returned("Push", inflight.item, r)
          /\ PushHist(inflight.item, r)
    /\ UNCHANGED <<Value, now, schedVars, seqHist>>

RemoveLock(e) ==
    /\ CanCall
    /\ lock' = "caller"
    /\ inflight' = [op |-> "Remove", item |-> e]
    /\ UNCHANGED <<storeVars, Key, Value, panicked, now, schedVars, last,
                   seqHist, hist>>

RemoveBody ==
    /\ ~panicked
    /\ lock = "caller" /\ inflight.op = "Remove"
    /\ \E r \in {Remove(Store, inflight.item)} :
          /\ Apply(r, "caller")
          /\ Returned("Remove", inflight.item, r)
          /\ RemoveHist(inflight.item, r)
    /\ UNCHANGED <<Value, now, schedVars, seqHist>>

\* Push between t.cur++ and t.timers[t.cur] = item
PushMid(h) == [h EXCEPT !.cur = h.cur + 1]

\* Remove between swap(item.index, t.cur) and down
RemoveMid(h, item) == swap(h, h.index[item], h.cur)

\* what Peek, which takes no lock, can find in t.cur and t.timers[0]: the
\* store as it is, or as the caller inside Push or Remove has it half done
PeekViews ==
    {Store} \cup
    IF lock # "caller" THEN {}
    ELSE IF inflight.op = "Push"
         THEN IF PushFull(Store) THEN {} ELSE {PushMid(Store)}
    ELSE IF inflight.op = "Remove"
         THEN IF index[inflight.item] \in {-1, cur} THEN {}
              ELSE {h \in {RemoveMid(Store, inflight.item)} : ~h.panic}
    ELSE {}

\* process(): td, err = t.Peek(), without the lock
ProcPeek ==
    /\ ~panicked
    /\ spc = "peek"
    /\ \E r \in {Peek(h) : h \in PeekViews} :
          IF r.err # ErrNone
          THEN /\ sleep' = timerDelay
               /\ spc' = "sleep"
               /\ td' = r.item
          ELSE /\ td' = r.item
               /\ spc' = "now"
               /\ sleep' = sleep
    /\ UNCHANGED <<storeVars, Key, Value, lock, inflight, panicked, now, last,
                   seqHist, hist>>

\* process(): now = time.Now(); sleep = td.Key - now; td is nil when Peek
\* found the size already counted up and slot 0 not yet written
ProcNow ==
    /\ ~panicked
    /\ spc = "now"
    /\ IF td = Nil
       THEN /\ panicked' = TRUE
            /\ UNCHANGED <<sleep, spc>>
       ELSE /\ panicked' = panicked
            /\ IF Key[td] - now > 0
               THEN /\ sleep' = Key[td] - now
                    /\ spc' = "sleep"
               ELSE /\ sleep' = sleep
                    /\ spc' = "pop"
    /\ UNCHANGED <<storeVars, Key, Value, lock, inflight, now, td,
                   last, seqHist, hist>>

\* process(): time.Sleep returns, continue
ProcWake ==
    /\ ~panicked
    /\ spc = "sleep"
    /\ sleep = 0
    /\ spc' = "peek"
    /\ UNCHANGED <<storeVars, Key, Value, lock, inflight, panicked, now, td,
                   sleep, last, seqHist, hist>>

\* process(): t.Pop() takes the lock
ProcPopLock ==
    /\ CanCall
    /\ spc = "pop"
    /\ lock' = "sched"
    /\ spc' = "popBody"
    /\ UNCHANGED <<storeVars, Key, Value, inflight, panicked, now, td, sleep,
                   last, seqHist, hist>>

\* process(): the body of t.Pop() and the test of its error
ProcPopBody ==
    /\ ~panicked
    /\ spc = "popBody"
    /\ \E r \in {Pop(Store)} :
          /\ Apply(r, "sched")
          /\ Returned("Pop", Nil, r)
          /\ PopHist(r)
          /\ IF r.err # ErrNone
             THEN /\ sleep' = timerDelay
                  /\ spc' = "sleep"
                  /\ td' = Nil
             ELSE /\ sleep' = sleep
                  /\ spc' = IF r.h.panic THEN spc ELSE "close"
                  /\ td' = r.item
    /\ UNCHANGED <<Value, now, seqHist>>

\* process() returning when Close has returned an error
ProcCloseStops(v) ==
    /\ ~panicked
    /\ spc = "close"
    /\ Value[td] # Unread => v = Value[td]
    /\ Value' = [Value EXCEPT ![td] = v]
    /\ closed' = IF v = "nil" THEN closed ELSE Inc(closed, td)
    /\ spc' = IF v = "connErr" THEN "stopped" ELSE "peek"
    /\ UNCHANGED <<storeVars, Key, lock, inflight, panicked, now, td,
                   sleep, last, seqHist, pushed, popped, removed, removedOK>>

\* process(): td.Value == nil, or td.Value.Close(), whose error is only logged
ProcClose(v) ==
    /\ ~panicked
    /\ spc = "close"
    /\ Value[td] # Unread => v = Value[td]
    /\ Value' = [Value EXCEPT ![td] = v]
    /\ closed' = IF v = "nil" THEN closed ELSE Inc(closed, td)
    /\ spc' = "peek"
    /\ UNCHANGED <<storeVars, Key, lock, inflight, panicked, now, td,
                   sleep, last, seqHist, pushed, popped, removed, removedOK>>

process ==
    \/ ProcPeek
    \/ ProcNow
    \/ ProcWake
    \/ ProcPopLock
    \/ ProcPopBody
    \/ \E v \in Values : ProcClose(v)

Next ==
    \/ Tick
    \/ \E e \in Entries, k \in Keys : PushLock(e, k)
    \/ PushBody
    \/ \E e \in Entries : RemoveLock(e)
    \/ RemoveBody
    \/ process

Spec == Init /\ [][Next]_vars

\* ---- SpecDrain: the goroutine alone on a store that holds a heap -----------
\* The callers have stopped; the goroutine of process() works off the store
\* that SpecHeap starts from.
NextDrain ==
    \/ Tick
    \/ process

SpecDrain == HeapInit /\ [][NextDrain]_vars

\* The goroutine keeps running, a caller inside Push or Remove runs on to its
\* return, and time keeps passing; a Lock() that is possible again and again
\* is eventually granted.
FairSpec ==
    /\ Spec
    /\ WF_vars(Tick)
    /\ WF_vars(PushBody)
    /\ WF_vars(RemoveBody)
    /\ WF_vars(ProcPeek \/ ProcNow \/ ProcWake \/ ProcPopBody
                  \/ \E v \in Values : ProcClose(v))
    /\ SF_vars(ProcPopLock)

\* ---- properties of the store ----------------------------------------------
MinKey(S) == CHOOSE k \in {Key[e] : e \in S} : \A e \in S : k <= Key[e]

NonDecreasing(q) == \A i \in 1..Len(q) : \A j \in 1..Len(q) : i <= j => q[i] <= q[j]

parent(i) == (i - 1) \div 2

HeapProperty == \A i \in Active : i > 0 => Key[timers[parent(i)]] <= Key[timers[i]]

\* C1: after Push calls only on a fresh store, Peek returns an entry whose
\* deadline is the minimum of the deadlines of the stored entries.
C1_PeekReturnsMinimum ==
    (phase = "fill" /\ last.op = "Peek" /\ cur >= 0)
        => /\ last.err = ErrNone
           /\ last.item \in StoredSet
           /\ Key[last.item] = MinKey(StoredSet)

\* C2: after a sequence of Push calls, Pop called repeatedly returns the
\* entries in nondecreasing order of deadline.
C2_PopsNonDecreasing ==
    phase = "drain" => NonDecreasing(popSeq)

\* C4: once Remove(e) has succeeded on a stored entry e, another Remove(e)
\* returns ErrTimerNoItem and no later Pop returns e.
C4_RemovedStaysRemoved ==
    /\ (last.op = "Remove" /\ last.again) => last.err = ErrTimerNoItem
    /\ (last.op = "Pop" /\ last.item # Nil) => last.item \notin removedOK

\* C8: on a store holding no entries Pop and Peek return ErrTimerEmpty and
\* Remove(e) returns ErrTimerNoItem for every entry e that is not stored;
\* none of them panics and the store still holds no entries afterwards.
C8_EmptyStoreErrors ==
    [][(cur = -1 /\ ~panicked /\ last'.op \in {"Pop", "Peek", "Remove"})
        => /\ ~panicked'
           /\ cur' = -1
           /\ last'.op \in {"Pop", "Peek"} => last'.err = ErrTimerEmpty
           /\ last'.op = "Remove" => last'.err = ErrTimerNoItem]_vars

\* C9: Push on a store that holds capacity entries returns ErrTimerFull and
\* changes nothing: the size stays at capacity, the backing array and every
\* index are unchanged, and the rejected entry is not stored.
C9_PushFullChangesNothing ==
    [][(last'.op = "Push" /\ cur >= num - 1)
        => /\ last'.err = ErrTimerFull
           /\ ~panicked'
           /\ cur' = num - 1
           /\ timers' = timers
           /\ index' = index
           /\ lock' = "free"
           /\ last'.arg \notin StoredSet']_vars

\* a Push has just been rejected by a full store
C9_Witness ==
    /\ last.op = "Push" /\ last.err = ErrTimerFull
    /\ cur = num - 1
    /\ Cardinality(StoredSet) = num
    /\ last.arg \notin StoredSet

\* C10: after any sequence of Push, Pop and Remove calls the min-heap
\* property holds: the deadline at slot (i-1)/2 is at most that at slot i.
C10_HeapProperty ==
    ~panicked => HeapProperty

\* ---- properties of the store under the goroutine --------------------------
\* C3: if Remove(A) on a stored entry A returned without error before the
\* goroutine popped A, the goroutine never calls Close on A.
C3_RemovedNeverClosed ==
    \A e \in removedOK : closed[e] = 0

\* the goroutine has popped e and closed its connection, if it has one
Fired(e) ==
    /\ popped[e] > 0
    /\ Value[e] # Unread
    /\ Value[e] # "nil" => closed[e] > 0

\* C5: every stored entry whose deadline has elapsed and which no caller
\* removes is eventually popped by the goroutine and closed.
C5_ExpiredEventuallyFired ==
    \A e \in Entries :
        (Stored(e) /\ Key[e] <= now) ~> (removed[e] > 0 \/ Fired(e))

\* C6: when the goroutine pops an entry, no entry stored at that moment has
\* a strictly earlier deadline.
C6_PopsEarliestStored ==
    [][(spc = "popBody" /\ spc' = "close")
        => \A e \in StoredSet : Key[td'] <= Key[e]]_vars

\* C7: when Remove(e) races with Pop on a stored entry e exactly one of them
\* extracts e: Remove returns e and e is never popped, or Pop returns e and
\* Remove(e) returns ErrTimerNoItem; an entry is extracted at most once and
\* closed at most once.
C7_ExactlyOneExtracts ==
    \A e \in pushed :
        /\ popped[e] + removed[e] <= 1
        /\ closed[e] <= 1
        /\ ~(e \in removedOK /\ popped[e] > 0)
        /\ (last.op = "Remove" /\ last.arg = e /\ popped[e] > 0)
              => last.err = ErrTimerNoItem

\* ---- the lock --------------------------------------------------------------
\* a call is between its Lock() and its return
InCall(holder) ==
    IF holder = "caller" THEN inflight # NoCall ELSE spc = "popBody"

\* C11: every return path of Push, Pop and Remove releases the lock, the
\* ErrTimerEmpty return of Pop and the ErrTimerNoItem return of Remove
\* included: the lock is held only by a call that has not returned yet, so
\* nobody waits for a lock that is never released.
C11_LockReleasedOnReturn ==
    ~panicked => \A holder \in {"caller", "sched"} : lock = holder => InCall(holder)

\* C12: the goroutine does not hold the lock while it sleeps (after an empty
\* Peek, until the next deadline, after a failed Pop) nor while it calls
\* Close on a connection.
C12_NoLockAcrossSleepOrClose ==
    spc \in {"sleep", "close"} => lock # "sched"

\* ---- Remove and Pop on a store in good order -------------------------------
\* C13: Remove(e) on a stored entry e removes exactly e: it returns e with
\* e.index = -1, one entry fewer is stored, and every other entry that was
\* stored is still stored.
C13_RemoveRemovesExactlyE ==
    [][(last'.op = "Remove" /\ last'.arg \in StoredSet)
        => /\ ~panicked'
           /\ last'.err = ErrNone
           /\ last'.item = last'.arg
           /\ index'[last'.arg] = -1
           /\ cur' = cur - 1
           /\ StoredSet' = StoredSet \ {last'.arg}]_vars

\* ---- the goroutine against concurrent callers ------------------------------
\* C14: the goroutine closes a connection only after the deadline of its
\* entry has elapsed: whatever Push and Remove calls run between its Peek,
\* its test of the deadline and its Pop, the entry it has popped and is about
\* to close has a deadline that is not later than the time.
C14_ClosedOnlyAfterDeadline ==
    spc = "close" => Key[td] <= now

\* C15: Peek runs under the lock of Push, Pop and Remove: the goroutine's
\* Peek never reads t.cur and t.timers[0] while a caller is inside the
\* critical section of Push or Remove, and what it returns is slot 0 of the
\* store as the last completed call left it.
C15_PeekUnderLock ==
    [][(spc = "peek" /\ spc' # "peek")
        => /\ ~(lock = "caller" /\ InCall("caller"))
           /\ td' = Peek(Store).item]_vars

\* C16: Remove keeps the heap in order: if the min-heap property holds when
\* Remove(e) is called on a stored entry e, at whatever slot, it holds for
\* the entries that are stored when Remove has returned.
C16_RemoveKeepsHeapProperty ==
    [][(last'.op = "Remove" /\ last'.arg \in StoredSet /\ HeapProperty)
        => (~panicked' /\ HeapProperty')]_vars

\* C17: Pop on a store that holds at least one entry and satisfies the
\* min-heap property returns an entry of minimum deadline with its index set
\* to -1, releases the lock, leaves exactly the other entries stored, one
\* fewer, and leaves them satisfying the min-heap property.
C17_PopReturnsMinimum ==
    [][(last'.op = "Pop" /\ cur >= 0 /\ HeapProperty)
        => /\ ~panicked'
           /\ last'.err = ErrNone
           /\ last'.item \in StoredSet
           /\ Key[last'.item] = MinKey(StoredSet)
           /\ index'[last'.item] = -1
           /\ lock' = "free"
           /\ cur' = cur - 1
           /\ StoredSet' = StoredSet \ {last'.item}
           /\ HeapProperty']_vars

\* Pop has returned from a store of at least four entries in which the entry
\* it moved to slot 0 had to be sifted down
C17_Witness ==
    /\ last.op = "Pop" /\ last.err = ErrNone
    /\ index[last.item] = -1
    /\ cur >= 2
    /\ HeapProperty
    /\ timers[cur + 1] = last.item
    /\ Key[timers[0]] < Key[timers[cur]]
    /\ \E i \in Active : Key[timers[i]] > Key[last.item]

\* C18: after any sequence of Push, Pop and Remove calls, each entry pushed
\* at most once, every slot of the active region 0..t.cur holds an entry
\* whose index is the number of that slot, and no entry is in two slots of
\* the active region.
C18_IndexIsSlot ==
    ~panicked =>
        /\ \A i \in Active : timers[i] # Nil /\ index[timers[i]] = i
        /\ \A i \in Active : \A j \in Active : timers[i] = timers[j] => i = j

\* Push has returned on a store of at least three entries from which an
\* entry was extracted before and in which swap has moved a stored entry
\* away from the slot it started in
C18_Witness ==
    /\ ~panicked
    /\ last.op = "Push" /\ last.err = ErrNone
    /\ index[last.arg] = cur
    /\ cur >= 2
    /\ \E e \in DOMAIN index : index[e] = -1
    /\ \E i \in Active : timers[i] # last.arg /\ timers[i] # i + 1

\* ---- the goroutine and Close ------------------------------------------------
\* C19: a popped entry whose Close returns an error, or which has no
\* connection, does not stop the goroutine: it goes back to the Peek at the
\* top of its loop without a panic, and the entry stays out of the store (the
\* store is left as Pop left it, the entry's index is -1).
C19_CloseFailureNotFatal ==
    [][(spc = "close" /\ spc' # "close" /\ Value'[td] \in {"connErr", "nil"})
        => /\ spc' = "peek"
           /\ ~panicked'
           /\ UNCHANGED <<storeVars, lock>>
           /\ index'[td] = -1
           /\ td \notin StoredSet']_vars

\* the goroutine has popped an entry whose Close failed and one without a
\* connection, both are out of the store, and it has popped the next entry
C19_Witness ==
    /\ spc = "close"
    /\ \E e \in DOMAIN index \ {td} :
          /\ Value[e] = "connErr" /\ closed[e] = 1 /\ ~Stored(e)
    /\ \E e \in DOMAIN index \ {td} :
          /\ Value[e] = "nil" /\ popped[e] = 1 /\ ~Stored(e)

====
